---- MODULE Spec2Model ----
(***************************************************************************)
(* A model of binance_mcp_w_resource.py: the tools and resources of the    *)
(* "Binance MCP" server (get_price, get_price_price_change, activity_log,  *)
(* get_crypto_price, symbol_map, get_option_premium) and the helper        *)
(* get_symbol_from_name.                                                   *)
(*                                                                         *)
(* The host runtime invokes one operation at a time; an operation runs to  *)
(* completion, so each operation is one action.  The only state that       *)
(* outlives a call is the activity log file.  The other variables record   *)
(* the last invocation: its name, its arguments together with what the     *)
(* outside world answered, the outbound calls it issued in order, and what *)
(* it returned or raised.                                                  *)
(*                                                                         *)
(* Text is modelled as a sequence of one-character strings wherever the    *)
(* code inspects or converts characters (names, symbols, dates).  An       *)
(* f-string is modelled as a record holding its template and the values    *)
(* substituted into it.  Prices and strikes are fixed-point numbers in     *)
(* units of 0.001, so the 0.01 tolerance is 10 units.                      *)
(***************************************************************************)
EXTENDS Integers, Sequences, FiniteSets, TLC

VARIABLES
    log,      \* the lines of activity.log, oldest first
    op,       \* the operation invoked last ("none" after start-up)
    arg,      \* its arguments and the answers of the outside world
    sent,     \* the outbound calls it issued, in order
    ret,      \* what it returned (or the exception that left it)
    fetched   \* history: the price fetches that wrote a log line, in order

vars == <<log, op, arg, sent, ret, fetched>>

(***************************************************************************)
(* Bounds of the model.                                                    *)
(***************************************************************************)
MaxLen == 3     \* longest free-form name tried on get_symbol_from_name
MaxLog == 2     \* lines the activity log may grow to
MaxRows == 6    \* rows of a calls/puts table

(***************************************************************************)
(* Characters: str.lower() and str.upper() on the characters the model     *)
(* uses (ASCII letters; every other character is left as it is).           *)
(***************************************************************************)
LowerChars == <<"a","b","c","d","e","f","g","h","i","j","k","l","m",
                "n","o","p","q","r","s","t","u","v","w","x","y","z">>

UpperChars == <<"A","B","C","D","E","F","G","H","I","J","K","L","M",
                "N","O","P","Q","R","S","T","U","V","W","X","Y","Z">>

IndexIn(ch, table) ==
    IF \E i \in DOMAIN table : table[i] = ch
    THEN CHOOSE i \in DOMAIN table : table[i] = ch
    ELSE 0

char_lower(ch) ==
    IF IndexIn(ch, UpperChars) # 0 THEN LowerChars[IndexIn(ch, UpperChars)] ELSE ch

char_upper(ch) ==
    IF IndexIn(ch, LowerChars) # 0 THEN UpperChars[IndexIn(ch, LowerChars)] ELSE ch

str_lower(s) == [i \in DOMAIN s |-> char_lower(s[i])]

str_upper(s) == [i \in DOMAIN s |-> char_upper(s[i])]

(***************************************************************************)
(* get_symbol_from_name                                                    *)
(***************************************************************************)
bitcoin == <<"b","i","t","c","o","i","n">>
btc == <<"b","t","c">>
ethereum == <<"e","t","h","e","r","e","u","m">>
eth == <<"e","t","h">>
BTCUSDT == <<"B","T","C","U","S","D","T">>
ETHUSDT == <<"E","T","H","U","S","D","T">>

\* a plausible slip: the alias test compares the name as typed
symbol_case_sensitive(name) ==
    IF name \in {bitcoin, btc} THEN BTCUSDT
    ELSE IF name \in {ethereum, eth} THEN ETHUSDT
    ELSE str_upper(name)

get_symbol_from_name(name) ==
    IF str_lower(name) \in {bitcoin, btc} THEN BTCUSDT
    ELSE IF str_lower(name) \in {ethereum, eth} THEN ETHUSDT
    ELSE str_upper(name)

(***************************************************************************)
(* Start-up: the __main__ block creates an empty activity.log when there   *)
(* is none, then serves.                                                   *)
(***************************************************************************)
NoArg == [name |-> <<>>]
NoRet == [kind |-> "none"]

Init ==
    /\ log = <<>>
    /\ op = "none"
    /\ arg = NoArg
    /\ sent = <<>>
    /\ ret = NoRet
    /\ fetched = <<>>

(***************************************************************************)
(* SpecNorm: get_symbol_from_name alone, applied to every name of a        *)
(* bounded set.                                                            *)
(***************************************************************************)
Alphabet == {"b", "t", "c", "e", "h", "B", "T", "C", "E", "H", "s", "1", " "}

SeqsUpTo(S, n) == UNION {[1..k -> S] : k \in 0..n}

\* every way of writing word in mixed case
RECURSIVE CaseVariants(_)
CaseVariants(word) ==
    IF word = <<>> THEN {<<>>}
    ELSE {<<c>> \o rest : c \in {Head(word), char_upper(Head(word))},
                          rest \in CaseVariants(Tail(word))}

NormNames ==
    SeqsUpTo(Alphabet, MaxLen)
      \cup CaseVariants(bitcoin) \cup CaseVariants(ethereum)
      \cup {bitcoin \o <<"s">>, <<"x">> \o ethereum, BTCUSDT, str_lower(ETHUSDT)}

InitNorm ==
    /\ log = <<>>
    /\ op = "input"
    /\ arg \in {[name |-> n] : n \in NormNames}
    /\ sent = <<>>
    /\ ret = NoRet
    /\ fetched = <<>>

ApplyNormalize ==
    /\ op = "input"
    /\ op' = "get_symbol_from_name"
    /\ ret' = [kind |-> "value", value |-> get_symbol_from_name(arg.name)]
    /\ UNCHANGED <<log, arg, sent, fetched>>

NextNorm == ApplyNormalize

SpecNorm == InitNorm /\ [][NextNorm]_vars

(***************************************************************************)
(* C1: get_symbol_from_name returns "BTCUSDT" for a name that is "bitcoin" *)
(* or "btc" up to case, "ETHUSDT" for one that is "ethereum" or "eth" up   *)
(* to case, and the name uppercased otherwise; it always returns a value,  *)
(* and the value holds no lowercase letter.                                *)
(***************************************************************************)
SameIgnoringCase(s, w) ==
    /\ Len(s) = Len(w)
    /\ \A i \in DOMAIN w : s[i] = w[i] \/ s[i] = char_upper(w[i])

IsLowercaseLetter(ch) == IndexIn(ch, LowerChars) # 0

C1_Normalize ==
    op = "get_symbol_from_name" =>
        LET n == arg.name
            isBtc == SameIgnoringCase(n, bitcoin) \/ SameIgnoringCase(n, btc)
            isEth == SameIgnoringCase(n, ethereum) \/ SameIgnoringCase(n, eth)
        IN /\ ret.kind = "value"
           /\ isBtc => ret.value = BTCUSDT
           /\ isEth => ret.value = ETHUSDT
           /\ ~isBtc /\ ~isEth =>
                 /\ Len(ret.value) = Len(n)
                 /\ \A i \in DOMAIN n :
                       ret.value[i] = IF IsLowercaseLetter(n[i])
                                      THEN UpperChars[IndexIn(n[i], LowerChars)]
                                      ELSE n[i]
           /\ \A i \in DOMAIN ret.value : ~IsLowercaseLetter(ret.value[i])

C1_Witness ==
    /\ op = "get_symbol_from_name"
    /\ arg.name = <<"B","i","t","C","o","I","n">>
    /\ ret.value = BTCUSDT

(***************************************************************************)
(* The outside world as the crypto operations see it.  requests.get either *)
(* raises (no connection) or answers with a status code and a body; the    *)
(* body is not JSON, JSON without a "price" field, or JSON with one.        *)
(***************************************************************************)
PriceNames == {<<"B","t","c">>, <<"x","y","z">>}

Prices == {"65000.12", "0.5"}

Statuses == {200, 304, 400}

NotJson == [tag |-> "not_json"]
JsonNoPrice == [tag |-> "json", fields |-> "none"]
JsonPrice(p) == [tag |-> "json", fields |-> "price", price |-> p]

Bodies == {NotJson, JsonNoPrice} \cup {JsonPrice(p) : p \in Prices}

ConnectionFailed == [tag |-> "connection_error"]
Answer(status, body) == [tag |-> "response", status_code |-> status, body |-> body]

Responses == {ConnectionFailed} \cup {Answer(c, b) : c \in Statuses, b \in Bodies}

HttpGet(host, path, symbol) == [call |-> "requests.get", host |-> host, path |-> path, symbol |-> symbol]

Raised(exc) == [kind |-> "raise", exc |-> exc]

(***************************************************************************)
(* get_price (and get_crypto_price, which returns get_price(symbol)).      *)
(* The block after the return of the error branch is never run.            *)
(***************************************************************************)
SuccessLine(symbol, price) ==
    [fmt |-> "Successfully fetched price for {symbol}: {price}, Current Time: {datetime.now()}\n",
     symbol |-> symbol, price |-> price]

ErrorLine(symbol, status) ==
    [fmt |-> "Error getting price for {symbol}: {response.status_code} - {response.text}\n",
     symbol |-> symbol, status_code |-> status]

Dict(d) == [kind |-> "dict", d |-> d]

PriceError(symbol, status) ==
    Dict([error |-> [fmt |-> "Failed to fetch price for symbol {symbol}. Status code: {response.status_code}",
                     symbol |-> symbol, status_code |-> status]])

PriceText(symbol, price) ==
    [kind |-> "str", fmt |-> "The current price of {symbol} is {price}.",
     symbol |-> symbol, price |-> price]

\* what the call returns or raises
get_price_result(symbol, response) ==
    IF response.tag = "connection_error" THEN Raised("ConnectionError")
    ELSE IF response.status_code # 200 THEN PriceError(symbol, response.status_code)
    ELSE IF response.body.tag = "not_json" THEN Raised("JSONDecodeError")
    ELSE IF response.body.fields # "price" THEN Raised("KeyError")
    ELSE PriceText(symbol, response.body.price)

\* a plausible fix-up of the dead block: the error branch logs before it returns
price_log_errors_too(file, symbol, response) ==
    IF response.tag = "connection_error" THEN file
    ELSE IF response.status_code # 200
         THEN Append(file, ErrorLine(symbol, response.status_code))
    ELSE IF response.body.tag = "json" /\ response.body.fields = "price"
         THEN Append(file, SuccessLine(symbol, response.body.price))
    ELSE file

\* a plausible slip: the file is opened with "w", which empties it first
price_log_truncates(file, symbol, response) ==
    IF /\ response.tag = "response"
       /\ response.status_code = 200
       /\ response.body.tag = "json"
       /\ response.body.fields = "price"
    THEN <<SuccessLine(symbol, response.body.price)>>
    ELSE file

\* a plausible slip: the line is written without the price
price_log_without_price(file, symbol, response) ==
    IF /\ response.tag = "response"
       /\ response.status_code = 200
       /\ response.body.tag = "json"
       /\ response.body.fields = "price"
    THEN Append(file, SuccessLine(symbol, "price"))
    ELSE file

\* the log file after the call: open(..., "a") and one write on the success path
get_price_log(file, symbol, response) ==
    IF /\ response.tag = "response"
       /\ response.status_code = 200
       /\ response.body.tag = "json"
       /\ response.body.fields = "price"
    THEN Append(file, SuccessLine(symbol, response.body.price))
    ELSE file

PriceCall(opname, name, response) ==
    LET symbol == get_symbol_from_name(name) IN
    /\ Len(get_price_log(log, symbol, response)) <= MaxLog
    /\ op' = opname
    /\ arg' = [name |-> name, response |-> response]
    /\ sent' = <<HttpGet("api.binance.us", "/api/v3/ticker/price", symbol)>>
    /\ ret' = get_price_result(symbol, response)
    /\ log' = get_price_log(log, symbol, response)
    /\ fetched' = IF ret'.kind = "str"
                  THEN Append(fetched, [symbol |-> ret'.symbol, price |-> ret'.price])
                  ELSE fetched

get_price ==
    \E name \in PriceNames, response \in Responses :
        PriceCall("get_price", name, response)

get_crypto_price ==
    \E name \in PriceNames, response \in Responses :
        PriceCall("get_crypto_price", name, response)

(***************************************************************************)
(* get_price_price_change: requests.get, raise_for_status, response.json().*)
(* raise_for_status raises HTTPError for a status code from 400 to 599.    *)
(***************************************************************************)
raise_for_status(status) == 400 <= status /\ status < 600

\* a plausible slip: the error is caught and returned the way get_price does
price_change_structured(symbol, response) ==
    IF response.tag = "connection_error" THEN Raised("ConnectionError")
    ELSE IF raise_for_status(response.status_code)
         THEN PriceError(symbol, response.status_code)
    ELSE IF response.body.tag = "not_json" THEN Raised("JSONDecodeError")
    ELSE [kind |-> "json", value |-> response.body]

get_price_price_change_result(symbol, response) ==
    IF response.tag = "connection_error" THEN Raised("ConnectionError")
    ELSE IF raise_for_status(response.status_code) THEN Raised("HTTPError")
    ELSE IF response.body.tag = "not_json" THEN Raised("JSONDecodeError")
    ELSE [kind |-> "json", value |-> response.body]

get_price_price_change ==
    \E name \in PriceNames, response \in Responses :
        LET symbol == get_symbol_from_name(name) IN
        /\ op' = "get_price_price_change"
        /\ arg' = [name |-> name, response |-> response]
        /\ sent' = <<HttpGet("data-api.binance.vision", "/api/v3/ticker/24hr", symbol)>>
        /\ ret' = get_price_price_change_result(symbol, response)
        /\ UNCHANGED <<log, fetched>>

(***************************************************************************)
(* The two file resources.  activity_log returns f.read() of the log;      *)
(* symbol_map returns the text of symbol_map.csv, a file beside the        *)
(* script, or fails to open it.                                            *)
(***************************************************************************)
read_file(file) == file

activity_log ==
    /\ op' = "activity_log"
    /\ arg' = NoArg
    /\ sent' = <<>>
    /\ ret' = [kind |-> "text", lines |-> read_file(log)]
    /\ UNCHANGED <<log, fetched>>

symbol_map ==
    \E present \in BOOLEAN :
        /\ op' = "symbol_map"
        /\ arg' = [name |-> <<>>, present |-> present]
        /\ sent' = <<>>
        /\ ret' = IF present THEN [kind |-> "text", file |-> "symbol_map.csv"]
                  ELSE Raised("FileNotFoundError")
        /\ UNCHANGED <<log, fetched>>

(***************************************************************************)
(* Dates: datetime.strptime(text, "%m/%d/%Y") and (text, "%Y-%m-%d"),      *)
(* then .date() and .strftime("%Y-%m-%d").  %m takes 1..12 and %d 1..31,   *)
(* each with or without a leading zero (%d also with a leading space), %Y  *)
(* takes exactly four digits; the whole text must be used up, and the day  *)
(* must exist in that month of that year.  Every failure is a ValueError.  *)
(* Years below 1000, whose strftime form depends on the platform, are not  *)
(* among the dates tried.                                                  *)
(***************************************************************************)
Digits == <<"0","1","2","3","4","5","6","7","8","9">>

IsDigit(ch) == IndexIn(ch, Digits) # 0

DigitVal(ch) == IndexIn(ch, Digits) - 1

RECURSIVE ToNum(_)
ToNum(f) ==
    IF f = <<>> THEN 0
    ELSE 10 * ToNum(SubSeq(f, 1, Len(f) - 1)) + DigitVal(f[Len(f)])

AllDigits(f) == \A i \in DOMAIN f : IsDigit(f[i])

Contains(s, ch) == \E i \in DOMAIN s : s[i] = ch

RECURSIVE SplitOn(_, _)
SplitOn(s, sep) ==
    IF ~Contains(s, sep) THEN <<s>>
    ELSE LET i == CHOOSE k \in DOMAIN s :
                      s[k] = sep /\ \A j \in 1..(k - 1) : s[j] # sep
         IN <<SubSeq(s, 1, i - 1)>> \o SplitOn(SubSeq(s, i + 1, Len(s)), sep)

month_field(f) == Len(f) \in {1, 2} /\ AllDigits(f) /\ ToNum(f) \in 1..12

day_field(f) ==
    \/ Len(f) \in {1, 2} /\ AllDigits(f) /\ ToNum(f) \in 1..31
    \/ Len(f) = 2 /\ f[1] = " " /\ IsDigit(f[2]) /\ DigitVal(f[2]) \in 1..9

day_value(f) == IF f[1] = " " THEN DigitVal(f[2]) ELSE ToNum(f)

year_field(f) == Len(f) = 4 /\ AllDigits(f) /\ ToNum(f) >= 1

is_leap(y) == (y % 4 = 0 /\ y % 100 # 0) \/ y % 400 = 0

days_in_month(y, m) ==
    IF m = 2 THEN (IF is_leap(y) THEN 29 ELSE 28)
    ELSE IF m \in {4, 6, 9, 11} THEN 30 ELSE 31

ValueError == [ok |-> FALSE]

make_date(y, m, d) ==
    IF d <= days_in_month(y, m) THEN [ok |-> TRUE, year |-> y, month |-> m, day |-> d]
    ELSE ValueError

\* fields in the order month, day, year, separated by sep
strptime_mdY(text, sep) ==
    LET f == SplitOn(text, sep) IN
    IF Len(f) = 3 /\ month_field(f[1]) /\ day_field(f[2]) /\ year_field(f[3])
    THEN make_date(ToNum(f[3]), ToNum(f[1]), day_value(f[2]))
    ELSE ValueError

\* fields in the order year, month, day, separated by sep
strptime_Ymd(text, sep) ==
    LET f == SplitOn(text, sep) IN
    IF Len(f) = 3 /\ year_field(f[1]) /\ month_field(f[2]) /\ day_field(f[3])
    THEN make_date(ToNum(f[1]), ToNum(f[2]), day_value(f[3]))
    ELSE ValueError

\* lines 114-118: the format is chosen by whether the text holds a '/'
parse_expiry(expiry_date) ==
    IF Contains(expiry_date, "/") THEN strptime_mdY(expiry_date, "/")
    ELSE strptime_Ymd(expiry_date, "-")

Pad(n, width) ==
    [i \in 1..width |-> Digits[((n \div (10 ^ (width - i))) % 10) + 1]]

\* exp_date.strftime("%Y-%m-%d")
strftime_iso(date) ==
    Pad(date.year, 4) \o <<"-">> \o Pad(date.month, 2) \o <<"-">> \o Pad(date.day, 2)

DateStrings ==
    {<<"2","0","2","5","-","1","1","-","0","7">>,
     <<"1","1","/","0","7","/","2","0","2","5">>,
     <<"1","1","/","7","/","2","0","2","5">>,
     <<"2","0","2","5","-","1","1","-","7">>,
     <<"2","0","2","5","/","1","1","/","0","7">>,
     <<"1","1","-","0","7","-","2","0","2","5">>,
     <<"2","0","2","5","-","0","2","-","3","0">>,
     <<"0","2","/","2","9","/","2","0","2","4">>,
     <<"0","2","/","2","9","/","2","0","2","5">>,
     <<"1","3","/","0","1","/","2","0","2","5">>,
     <<"1","1","/","0","7","/","2","5">>,
     <<"f","r","i","d","a","y">>,
     <<>>}

(***************************************************************************)
(* get_option_premium.                                                     *)
(*                                                                         *)
(* A table (a DataFrame) is its set of column names and its rows in order; *)
(* a cell is a number or NaN.  Strikes and prices are in units of 0.001;   *)
(* quotes are whole cents, so the mean of two quotes is a whole number of  *)
(* units.  Strikes are never NaN.  Python's None, float and int results    *)
(* are tagged records.                                                     *)
(***************************************************************************)
Tolerance == 10     \* 0.01, line 137
NearbyCount == 5    \* [:5], line 141

NaN == [nan |-> TRUE]
Num(v) == [nan |-> FALSE, val |-> v]

None == [py |-> "None"]
PyFloat(v) == [py |-> "float", val |-> v]
PyInt(v) == [py |-> "int", val |-> v]

Columns == {"strike", "lastPrice", "bid", "ask", "volume", "openInterest", "impliedVolatility"}

notna(cell) == ~cell.nan

Abs(x) == IF x < 0 THEN -x ELSE x

\* float(cell) if pd.notna(cell) else None
float_or_none(cell) == IF notna(cell) THEN PyFloat(cell.val) ELSE None

\* int(cell) if pd.notna(cell) else 0
int_or_zero(cell) == IF notna(cell) THEN PyInt(cell.val) ELSE PyInt(0)

\* abs(options_df['strike'] - strike) < 0.01, for one row
within_tolerance(row, strike) == Abs(row.strike.val - strike) < Tolerance

\* a plausible slip: the last of the rows in tolerance is taken
matching_newest_first(rows, strike) ==
    LET RECURSIVE Rev(_)
        Rev(q) == IF q = <<>> THEN <<>> ELSE Rev(Tail(q)) \o <<Head(q)>>
        InTol(row) == within_tolerance(row, strike)
    IN Rev(SelectSeq(rows, InTol))

\* options_df[mask]: the rows in tolerance, in table order
matching_options(rows, strike) ==
    LET InTol(row) == within_tolerance(row, strike)
    IN SelectSeq(rows, InTol)

Min(S) == CHOOSE x \in S : \A y \in S : x <= y

\* a plausible slip: the positions are cut to five before they are sorted
argsort_after_cut(dist) ==
    LET RECURSIVE Orders(_)
        Orders(rest) ==
            IF rest = {} THEN {<<>>}
            ELSE LET m == Min({dist[j] : j \in rest})
                 IN UNION {{<<i>> \o r : r \in Orders(rest \ {i})} :
                              i \in {j \in rest : dist[j] = m}}
    IN Orders({i \in DOMAIN dist : i <= NearbyCount})

\* Series.argsort() with its default kind, "quicksort", which numpy documents
\* as not stable: any order of the positions that sorts the values may come out.
argsort(dist) ==
    LET RECURSIVE Orders(_)
        Orders(rest) ==
            IF rest = {} THEN {<<>>}
            ELSE LET m == Min({dist[j] : j \in rest})
                 IN UNION {{<<i>> \o r : r \in Orders(rest \ {i})} :
                              i \in {j \in rest : dist[j] = m}}
    IN Orders(DOMAIN dist)

\* options_df.iloc[(options_df['strike'] - strike).abs().argsort()[:5]]['strike'].tolist():
\* the lists that may come out
closest_strikes(rows, strike) ==
    LET dist == [i \in DOMAIN rows |-> Abs(rows[i].strike.val - strike)]
        FirstFew(order) == SubSeq(order, 1, IF Len(order) < NearbyCount
                                            THEN Len(order) ELSE NearbyCount)
    IN {[k \in DOMAIN FirstFew(order) |-> rows[FirstFew(order)[k]].strike.val] :
            order \in argsort(dist)}

InvalidDate(expiry_date) ==
    Dict([error |-> [fmt |-> "Invalid date format: {expiry_date}. Use 'YYYY-MM-DD' or 'MM/DD/YYYY'",
                     expiry_date |-> expiry_date]])

CouldNotFetch(message) ==
    Dict([error |-> [fmt |-> "Could not fetch options chain: {str(e)}. Make sure the expiry date is valid and the symbol has options available.",
                     e |-> message]])

NotFound(strike, nearby, iso, option_type) ==
    Dict([error |-> [fmt |-> "No option found with strike {strike}", strike |-> strike],
          available_strikes_nearby |-> nearby,
          requested_strike |-> strike,
          expiry_date |-> iso,
          option_type |-> option_type])

\* a plausible slip: the mid price is added when either quote is there
contract_mid_if_any(symbol, option, iso, option_type) ==
    LET result == [symbol |-> str_upper(symbol),
                   strike |-> PyFloat(option.strike.val),
                   expiry_date |-> iso,
                   option_type |-> str_lower(option_type),
                   last_price |-> float_or_none(option.lastPrice),
                   bid |-> float_or_none(option.bid),
                   ask |-> float_or_none(option.ask),
                   volume |-> int_or_zero(option.volume),
                   open_interest |-> int_or_zero(option.openInterest),
                   implied_volatility |-> float_or_none(option.impliedVolatility)]
        val(x) == IF x = None THEN 0 ELSE x.val
    IN IF result.bid # None \/ result.ask # None
       THEN Dict(result @@ ("mid_price" :> PyFloat((val(result.bid) + val(result.ask)) \div 2)))
       ELSE Dict(result)

\* lines 154-171: the result dictionary of the matched row
contract(symbol, option, iso, option_type) ==
    LET result == [symbol |-> str_upper(symbol),
                   strike |-> PyFloat(option.strike.val),
                   expiry_date |-> iso,
                   option_type |-> str_lower(option_type),
                   last_price |-> float_or_none(option.lastPrice),
                   bid |-> float_or_none(option.bid),
                   ask |-> float_or_none(option.ask),
                   volume |-> int_or_zero(option.volume),
                   open_interest |-> int_or_zero(option.openInterest),
                   implied_volatility |-> float_or_none(option.impliedVolatility)]
    IN IF result.bid # None /\ result.ask # None
       THEN Dict(result @@ ("mid_price" :> PyFloat((result.bid.val + result.ask.val) \div 2)))
       ELSE Dict(result)

\* line 133
select_table(chain, option_type) ==
    IF str_lower(option_type) = <<"c","a","l","l">> THEN chain.calls ELSE chain.puts

\* lines 133-171, once the chain is there: what is returned or raised
resolve(in, iso) ==
    LET options_df == select_table(in.chain, in.option_type) IN
    IF "strike" \notin options_df.columns THEN {Raised("KeyError")}
    ELSE LET matching == matching_options(options_df.rows, in.strike) IN
         IF matching = <<>>
         THEN {NotFound(in.strike, nearby, iso, in.option_type) :
                  nearby \in closest_strikes(options_df.rows, in.strike)}
         ELSE IF Columns \subseteq options_df.columns
              THEN {contract(in.symbol, matching[1], iso, in.option_type)}
              ELSE {Raised("KeyError")}

\* a plausible slip: the ticker is built and the chain asked for before the date is read
calls_before_parse(in) ==
    LET exp_date == parse_expiry(in.expiry_date)
        ticker == [call |-> "yf.Ticker", symbol |-> str_upper(in.symbol)]
    IN IF in.ticker = "raise" THEN <<ticker>>
       ELSE <<ticker, [call |-> "option_chain",
                       date |-> IF exp_date.ok THEN strftime_iso(exp_date)
                                ELSE in.expiry_date]>>

\* the provider calls issued, in order
provider_calls(in) ==
    LET exp_date == parse_expiry(in.expiry_date)
        ticker == [call |-> "yf.Ticker", symbol |-> str_upper(in.symbol)]
    IN IF ~exp_date.ok THEN <<>>
       ELSE IF in.ticker = "raise" THEN <<ticker>>
       ELSE <<ticker, [call |-> "option_chain", date |-> strftime_iso(exp_date)]>>

\* lines 111-171, the body of the outer try: what it returns or raises
premium_body(in) ==
    LET exp_date == parse_expiry(in.expiry_date) IN
    IF ~exp_date.ok THEN {InvalidDate(in.expiry_date)}
    ELSE IF in.ticker = "raise" THEN {Raised("Exception")}
    ELSE IF in.chain.tag = "raise" THEN {CouldNotFetch(in.chain.e)}
    ELSE resolve(in, strftime_iso(exp_date))

\* a plausible slip: the outer handler names ValueError only
except_value_error(outcome) ==
    IF outcome.kind = "raise" /\ outcome.exc = "ValueError"
    THEN Dict([error |-> [fmt |-> "Error fetching option premium: {str(e)}", e |-> outcome.exc]])
    ELSE outcome

\* lines 173-174: except Exception as e
except_Exception(outcome) ==
    IF outcome.kind = "raise"
    THEN Dict([error |-> [fmt |-> "Error fetching option premium: {str(e)}", e |-> outcome.exc]])
    ELSE outcome

OptionCall(in) ==
    \E outcome \in premium_body(in) :
        /\ op' = "get_option_premium"
        /\ arg' = [in EXCEPT !.name = <<>>]
        /\ sent' = provider_calls(in)
        /\ ret' = except_Exception(outcome)
        /\ UNCHANGED <<log, fetched>>

(***************************************************************************)
(* The inputs get_option_premium is tried on.  The row at position i of a  *)
(* table bids 1.40 + i/100, so rows of equal strike can be told apart.     *)
(***************************************************************************)
Row(strike, i) ==
    [strike |-> Num(strike), lastPrice |-> Num(1500), bid |-> Num(1400 + 10 * i),
     ask |-> Num(1600), volume |-> Num(12), openInterest |-> Num(340),
     impliedVolatility |-> Num(250)]

Table(columns, rows) == [columns |-> columns, rows |-> rows]

TableOf(strikes) == Table(Columns, [i \in DOMAIN strikes |-> Row(strikes[i], i)])

Chain(calls, puts) == [tag |-> "chain", calls |-> calls, puts |-> puts]

ChainRaises(message) == [tag |-> "raise", e |-> message]

OptInput(symbol, strike, expiry_date, option_type, ticker, chain) ==
    [name |-> <<>>, symbol |-> symbol, strike |-> strike, expiry_date |-> expiry_date,
     option_type |-> option_type, ticker |-> ticker, chain |-> chain]

pltr == <<"p","l","t","r">>
IsoDate == <<"2","0","2","5","-","1","1","-","0","7">>
UsDate == <<"1","1","/","0","7","/","2","0","2","5">>
BadDate == <<"f","r","i","d","a","y">>
call == <<"c","a","l","l">>
put == <<"p","u","t">>

TableStrikes == {95000, 100005, 105000}

Requests == {100000, 100005, 100015, 150000}

OptionTypes == {call, str_upper(call), put, <<"x">>}

\* the table the request is not meant to read
Decoy ==
    Table(Columns, <<[Row(100005, 1) EXCEPT !.bid = Num(9990)],
                     [Row(150000, 2) EXCEPT !.bid = Num(9990)]>>)

ChainFor(option_type, table) ==
    IF str_lower(option_type) = call THEN Chain(table, Decoy) ELSE Chain(Decoy, table)

\* every table of up to MaxRows rows, every request, every option type
TableInputs ==
    {OptInput(pltr, k, IsoDate, t, "ok", ChainFor(t, TableOf(strikes))) :
        strikes \in SeqsUpTo(TableStrikes, MaxRows), k \in Requests, t \in {call, put}}

\* every date text, against every way the provider may answer
DateInputs ==
    {OptInput(sym, k, d, call, ticker, chain) :
        sym \in {pltr, str_upper(pltr)}, k \in {100000, 150000}, d \in DateStrings,
        ticker \in {"ok", "raise"},
        chain \in {ChainRaises("no chain"),
                   Chain(TableOf(<<95000, 100005, 105000>>), Decoy),
                   Chain(Table(Columns, <<>>), Decoy),
                   Chain(Table({}, <<>>), Decoy)}}

\* one matching row, every mix of missing quotes
QuoteInputs ==
    {OptInput(pltr, 100000, UsDate, t, "ok", ChainFor(t, Table(Columns, <<row>>))) :
        t \in OptionTypes,
        row \in [strike : {Num(100005)},
                 lastPrice : {NaN, Num(1500)},
                 bid : {NaN, Num(1400), Num(1410)},
                 ask : {NaN, Num(1600)},
                 volume : {NaN, Num(12)},
                 openInterest : {NaN, Num(340)},
                 impliedVolatility : {NaN, Num(250)}]}

\* a table that lacks one column
ColumnInputs ==
    {OptInput(pltr, k, IsoDate, call, "ok",
              Chain(Table(Columns \ {c}, TableOf(<<95000, 100005>>).rows), Decoy)) :
        k \in {100005, 150000}, c \in Columns}

OptInputs == TableInputs \cup DateInputs \cup QuoteInputs \cup ColumnInputs

(***************************************************************************)
(* SpecOpt: get_option_premium alone, which reads and writes nothing that  *)
(* outlives the call: one invocation on each input, from start-up.         *)
(***************************************************************************)
InitOpt ==
    /\ log = <<>>
    /\ op = "input"
    /\ arg \in OptInputs
    /\ sent = <<>>
    /\ ret = NoRet
    /\ fetched = <<>>

NextOpt == op = "input" /\ OptionCall(arg)

SpecOpt == InitOpt /\ [][NextOpt]_vars

(***************************************************************************)
(* Spec: the server.  Any operation may be invoked next.                   *)
(***************************************************************************)
ServerOptInputs ==
    {OptInput(pltr, k, d, call, "ok", chain) :
        k \in {100000, 150000}, d \in {IsoDate, BadDate},
        chain \in {ChainRaises("no chain"),
                   Chain(TableOf(<<95000, 100005, 105000>>), Decoy)}}

get_option_premium == \E in \in ServerOptInputs : OptionCall(in)

Next ==
    \/ get_price
    \/ get_crypto_price
    \/ get_price_price_change
    \/ activity_log
    \/ symbol_map
    \/ get_option_premium

Spec == Init /\ [][Next]_vars

(***************************************************************************)
(* What the claims speak of, stated apart from the operators above.        *)
(***************************************************************************)
IsPriceOp(o) == o \in {"get_price", "get_crypto_price"}

IsPrefix(s, t) == Len(s) <= Len(t) /\ SubSeq(t, 1, Len(s)) = s

\* the table the option type asks for: the calls for "call" in any case,
\* the puts for anything else
Selected(in) ==
    IF SameIgnoringCase(in.option_type, call) THEN in.chain.calls ELSE in.chain.puts

\* the call got as far as a table with a strike column
TableReached ==
    /\ op = "get_option_premium"
    /\ parse_expiry(arg.expiry_date).ok
    /\ arg.ticker = "ok"
    /\ arg.chain.tag = "chain"
    /\ "strike" \in Selected(arg).columns

Distance(strike) == Abs(strike - arg.strike)

\* the positions of the rows whose strike is less than 0.01 from the request
Near == {i \in DOMAIN Selected(arg).rows : Distance(Selected(arg).rows[i].strike.val) < Tolerance}

FirstNear == Selected(arg).rows[Min(Near)]

IsNotFound(r) == r.kind = "dict" /\ "available_strikes_nearby" \in DOMAIN r.d

ContractKeys ==
    {"symbol", "strike", "expiry_date", "option_type", "last_price", "bid", "ask",
     "volume", "open_interest", "implied_volatility"}

IsContract(r) == r.kind = "dict" /\ ContractKeys \subseteq DOMAIN r.d

IsError(r) == r.kind = "dict" /\ "error" \in DOMAIN r.d

(***************************************************************************)
(* C2: when the price endpoint answers 200 with price p for the normalized *)
(* symbol S, get_price returns exactly "The current price of S is p." and  *)
(* the log grows by exactly one line, which holds S and p.                 *)
(***************************************************************************)
C2_PriceSuccess ==
    [][(/\ IsPriceOp(op')
        /\ arg'.response.tag = "response"
        /\ arg'.response.status_code = 200
        /\ arg'.response.body.tag = "json"
        /\ arg'.response.body.fields = "price")
       => LET S == get_symbol_from_name(arg'.name)
              p == arg'.response.body.price
          IN /\ ret' = [kind |-> "str", fmt |-> "The current price of {symbol} is {price}.",
                        symbol |-> S, price |-> p]
             /\ Len(log') = Len(log) + 1
             /\ SubSeq(log', 1, Len(log)) = log
             /\ log'[Len(log')].symbol = S
             /\ log'[Len(log')].price = p]_vars

C2_Witness ==
    /\ op = "get_price"
    /\ arg.name = <<"B","t","c">>
    /\ arg.response = Answer(200, JsonPrice("65000.12"))
    /\ ret.kind = "str"
    /\ ret.symbol = BTCUSDT
    /\ Len(log) = 2
    /\ log[2].price = "65000.12"

(***************************************************************************)
(* C3: when the price endpoint answers with a status code c other than     *)
(* 200, get_price returns, as a value, {error: message} whose message      *)
(* holds the normalized symbol and c; nothing is raised and the log is     *)
(* left as it was.                                                         *)
(***************************************************************************)
C3_PriceError ==
    [][(/\ IsPriceOp(op')
        /\ arg'.response.tag = "response"
        /\ arg'.response.status_code # 200)
       => /\ IsError(ret')
          /\ DOMAIN ret'.d = {"error"}
          /\ ret'.d.error.symbol = get_symbol_from_name(arg'.name)
          /\ ret'.d.error.symbol = str_upper(ret'.d.error.symbol)
          /\ ret'.d.error.status_code = arg'.response.status_code
          /\ log' = log]_vars

C3_Witness ==
    /\ op = "get_price"
    /\ arg.name = <<"x","y","z">>
    /\ arg.response.tag = "response"
    /\ arg.response.status_code = 400
    /\ IsError(ret)
    /\ ret.d.error.symbol = <<"X","Y","Z">>
    /\ Len(log) = 1

(***************************************************************************)
(* C4: get_option_premium lets no exception out: whatever the inputs and   *)
(* whatever the provider does, it returns an OptionContract result or a    *)
(* dictionary with an "error" field.                                       *)
(***************************************************************************)
C4_NoEscape ==
    op = "get_option_premium" => IsContract(ret) \/ IsError(ret)

C4_Witness ==
    /\ op = "get_option_premium"
    /\ arg.chain.tag = "chain"
    /\ arg.ticker = "ok"
    /\ "bid" \notin Selected(arg).columns
    /\ IsError(ret)
    /\ ret.d.error.fmt = "Error fetching option premium: {str(e)}"

(***************************************************************************)
(* C5: when the selected table has a row whose strike is less than 0.01    *)
(* from the requested strike, no "not found" result is returned, and (the  *)
(* table having the provider's columns) the result is built from the first *)
(* such row in table order.                                                *)
(***************************************************************************)
C5_FirstMatch ==
    (TableReached /\ Near # {}) =>
        /\ ~IsNotFound(ret)
        /\ Columns \subseteq Selected(arg).columns =>
              /\ IsContract(ret)
              /\ ret.d.strike = PyFloat(FirstNear.strike.val)
              /\ ret.d.bid = (IF FirstNear.bid.nan THEN None ELSE PyFloat(FirstNear.bid.val))
              /\ ret.d.ask = (IF FirstNear.ask.nan THEN None ELSE PyFloat(FirstNear.ask.val))
              /\ ret.d.last_price =
                    (IF FirstNear.lastPrice.nan THEN None ELSE PyFloat(FirstNear.lastPrice.val))

\* two rows in tolerance of a request that is neither's strike; the first is taken
C5_Witness ==
    /\ TableReached
    /\ arg.strike = 100000
    /\ Cardinality(Near) >= 2
    /\ Min(Near) = 2
    /\ IsContract(ret)
    /\ ret.d.strike = PyFloat(100005)
    /\ ret.d.bid = PyFloat(1420)

(***************************************************************************)
(* C6.  The strikes listed when no row is in tolerance.                    *)
(***************************************************************************)
Nearby == ret.d.available_strikes_nearby

TableStrikeAt == [i \in DOMAIN Selected(arg).rows |-> Selected(arg).rows[i].strike.val]

Count(seq, v) == Cardinality({i \in DOMAIN seq : seq[i] = v})

\* the positions in ascending order of distance, equal distances in table order
StableOrder ==
    LET n == Len(TableStrikeAt)
        Before(i, j) ==
            \/ Distance(TableStrikeAt[i]) < Distance(TableStrikeAt[j])
            \/ Distance(TableStrikeAt[i]) = Distance(TableStrikeAt[j]) /\ i < j
        Rank(i) == 1 + Cardinality({j \in 1..n : Before(j, i)})
    IN [k \in 1..n |-> CHOOSE i \in 1..n : Rank(i) = k]

NearbySize == IF Len(TableStrikeAt) < NearbyCount THEN Len(TableStrikeAt) ELSE NearbyCount

\* C6 as claimed: with no row in tolerance the result is "not found", and
\* available_strikes_nearby holds the min(5, table size) strikes closest to
\* the request in ascending order of distance, equal distances in table order.
C6_StableNearby ==
    (TableReached /\ Near = {}) =>
        /\ IsNotFound(ret)
        /\ Nearby = [k \in 1..NearbySize |-> TableStrikeAt[StableOrder[k]]]

\* C6 as amended: with no row in tolerance the result is "not found"; it
\* carries the requested strike, the option type as given and the expiry date
\* as YYYY-MM-DD, and available_strikes_nearby holds min(5, table size)
\* strikes of the table, none farther from the request than a strike left
\* out, in ascending order of distance; the order among strikes at equal
\* distance is not fixed.
C6_Nearby ==
    (TableReached /\ Near = {}) =>
        /\ IsNotFound(ret)
        /\ IsError(ret)
        /\ ret.d.requested_strike = arg.strike
        /\ ret.d.option_type = arg.option_type
        /\ ret.d.expiry_date = strftime_iso(parse_expiry(arg.expiry_date))
        /\ Len(Nearby) = NearbySize
        /\ \A i, j \in DOMAIN Nearby : i < j => Distance(Nearby[i]) <= Distance(Nearby[j])
        /\ \A v \in {Nearby[i] : i \in DOMAIN Nearby} :
              Count(Nearby, v) <= Count(TableStrikeAt, v)
        /\ \A v \in {TableStrikeAt[i] : i \in DOMAIN TableStrikeAt} :
              Count(Nearby, v) < Count(TableStrikeAt, v) =>
                  \A i \in DOMAIN Nearby : Distance(Nearby[i]) <= Distance(v)

\* six rows, so one strike is left out, and two strikes equally far that
\* come out against table order
C6_Witness ==
    /\ TableReached
    /\ Near = {}
    /\ Len(TableStrikeAt) = 6
    /\ arg.strike = 100000
    /\ IsNotFound(ret)
    /\ Len(Nearby) = 5
    /\ TableStrikeAt[1] = 95000
    /\ TableStrikeAt[2] = 105000
    /\ Nearby[1] = 105000
    /\ Nearby[2] = 95000

(***************************************************************************)
(* C7: the expiry date is parsed before the provider is called (as         *)
(* MM/DD/YYYY when the text holds a '/', else as YYYY-MM-DD): a text that  *)
(* does not parse gives {error} at once, with no provider call issued and  *)
(* nothing written; a text that parses reaches the provider as YYYY-MM-DD. *)
(***************************************************************************)
C7_ParseFirst ==
    op = "get_option_premium" =>
        /\ ~parse_expiry(arg.expiry_date).ok =>
              /\ IsError(ret)
              /\ DOMAIN ret.d = {"error"}
              /\ ret.d.error.expiry_date = arg.expiry_date
              /\ sent = <<>>
              /\ log = <<>>
        /\ arg.expiry_date \in {UsDate, IsoDate, <<"1","1","/","7","/","2","0","2","5">>} =>
              /\ Len(sent) >= 1
              /\ Len(sent) = 2 => sent[2].date = IsoDate
        /\ arg.expiry_date \in {BadDate, <<>>, <<"2","0","2","5","/","1","1","/","0","7">>,
                                <<"1","1","-","0","7","-","2","0","2","5">>,
                                <<"0","2","/","2","9","/","2","0","2","5">>} =>
              sent = <<>> /\ IsError(ret)

C7_Witness ==
    /\ op = "get_option_premium"
    /\ arg.expiry_date = <<"2","0","2","5","/","1","1","/","0","7">>
    /\ arg.ticker = "raise"
    /\ arg.chain.tag = "raise"
    /\ sent = <<>>
    /\ IsError(ret)
    /\ ret.d.error.fmt = "Invalid date format: {expiry_date}. Use 'YYYY-MM-DD' or 'MM/DD/YYYY'"

(***************************************************************************)
(* C8.  get_price_price_change and the status of the answer.               *)
(***************************************************************************)
IsSuccessStatus(c) == 200 <= c /\ c < 300

\* C8 as claimed: on a status that is not a success the call ends in an
\* error that is raised, not returned; on a success it returns the decoded
\* body as it is; the log is never changed.
C8_NonSuccessRaises ==
    [][(op' = "get_price_price_change" /\ arg'.response.tag = "response")
       => /\ ~IsSuccessStatus(arg'.response.status_code) => ret'.kind = "raise"
          /\ (IsSuccessStatus(arg'.response.status_code) /\ arg'.response.body.tag = "json")
                => ret' = [kind |-> "json", value |-> arg'.response.body]
          /\ log' = log]_vars

\* C8 as amended: on a status from 400 to 599 the call ends in an error that
\* is raised, not returned; on any other status it returns the decoded body
\* as it is (and raises when the body does not decode); the log is never
\* changed.
C8_ErrorStatusRaises ==
    [][op' = "get_price_price_change"
       => /\ (arg'.response.tag = "response" /\ arg'.response.status_code \in 400..599)
                => ret'.kind = "raise"
          /\ (/\ arg'.response.tag = "response"
              /\ arg'.response.status_code \notin 400..599
              /\ arg'.response.body.tag = "json")
                => ret' = [kind |-> "json", value |-> arg'.response.body]
          /\ ~IsError(ret')
          /\ log' = log]_vars

C8_Witness ==
    /\ op = "get_price_price_change"
    /\ arg.response.tag = "response"
    /\ arg.response.status_code = 400
    /\ arg.response.body.tag = "json"
    /\ ret.kind = "raise"
    /\ Len(log) = 1

(***************************************************************************)
(* C9: in every OptionContract result mid_price is there exactly when bid  *)
(* and ask are both not null, and is then their mean; bid, ask, last_price *)
(* and implied_volatility are null exactly when the matched row's cell is  *)
(* NaN, and volume and open_interest are 0 when it is.                     *)
(***************************************************************************)
C9_MidPrice ==
    (op = "get_option_premium" /\ IsContract(ret)) =>
        /\ "mid_price" \in DOMAIN ret.d <=> (ret.d.bid # None /\ ret.d.ask # None)
        /\ "mid_price" \in DOMAIN ret.d =>
              2 * ret.d.mid_price.val = ret.d.bid.val + ret.d.ask.val
        /\ ret.d.bid = None <=> FirstNear.bid.nan
        /\ ret.d.ask = None <=> FirstNear.ask.nan
        /\ ret.d.last_price = None <=> FirstNear.lastPrice.nan
        /\ ret.d.implied_volatility = None <=> FirstNear.impliedVolatility.nan
        /\ FirstNear.volume.nan => ret.d.volume = PyInt(0)
        /\ FirstNear.openInterest.nan => ret.d.open_interest = PyInt(0)
        /\ ~FirstNear.volume.nan => ret.d.volume = PyInt(FirstNear.volume.val)
        /\ ~FirstNear.openInterest.nan => ret.d.open_interest = PyInt(FirstNear.openInterest.val)

\* a row with an ask and no bid: no mid_price
C9_Witness ==
    /\ op = "get_option_premium"
    /\ IsContract(ret)
    /\ ret.d.bid = None
    /\ ret.d.ask = PyFloat(1600)
    /\ ret.d.volume = PyInt(0)
    /\ "mid_price" \notin DOMAIN ret.d

(***************************************************************************)
(* C10: over any sequence of invocations the log is append-only (what it   *)
(* held stays a prefix of what it holds), only a price fetch extends it,   *)
(* and activity_log returns all of it: the lines of the earlier logged     *)
(* price fetches, in the order of the invocations.                         *)
(***************************************************************************)
C10_AppendOnly ==
    [][/\ IsPrefix(log, log')
       /\ log' # log => IsPriceOp(op')
       /\ op' = "activity_log" =>
             /\ ret'.kind = "text"
             /\ ret'.lines = log'
             /\ Len(ret'.lines) = Len(fetched')
             /\ \A i \in DOMAIN fetched' :
                   /\ ret'.lines[i].symbol = fetched'[i].symbol
                   /\ ret'.lines[i].price = fetched'[i].price]_vars

C10_Witness ==
    /\ op = "activity_log"
    /\ Len(fetched) = 2
    /\ fetched[1].symbol = <<"X","Y","Z">>
    /\ fetched[2].symbol = BTCUSDT
    /\ ret.lines = log
    /\ log[2].symbol = BTCUSDT

====
